---- MODULE Spec2Model ----
(***************************************************************************)
(* Plant sensor simulator and health scorer (src/lib/iotSimulator.ts), the  *)
(* dual-path prediction engine (src/lib/tfModels.ts) and the ingestion      *)
(* endpoint (src/app/api/sensors/ingest/route.ts).                          *)
(*                                                                         *)
(* Numbers.  The program computes in floating point; the model computes in *)
(* exact fixed point, one scale per quantity, chosen so that every value   *)
(* the modelled draws can produce is an integer:                           *)
(*   temperature   in 1/16 degree        (TS)                              *)
(*   humidity      in 1/4 percent        (HS)                              *)
(*   soilMoisture  in 1/40 percent       (MS)                              *)
(*   lightIntensity in 1/4 lux           (LS)                              *)
(*   stressLevel   in 1/72000            (SS)                              *)
(*   time          in hours                                                *)
(* Math.random() is a draw r8/8 with r8 in 0..7, so it is in [0,1) as in   *)
(* the program.  NaN and infinities are outside the modelled domain.       *)
(***************************************************************************)
EXTENDS Integers, Sequences, FiniteSets, TLC

VARIABLES
    plantStates,   \* iotSimulator.ts:25  Map<number, PlantState>, as a function on its keys
    now,           \* Date.now(), in hours
    nAdvance,      \* number of single generateSensorReading calls made so far (bounds the run)
    lastReading,   \* what the latest call returned: a SensorReading, or NoReading
    lastCall,      \* the latest simulator call: its name, plant id and the state it started from
    healthModel,   \* tfModels.ts:11  "null", or the handle it holds: "loaded" or "disposed"
    acousticModel, \* tfModels.ts:12  "null", or the handle it holds: "loaded" or "disposed"
    tf,            \* window.tf is present
    initPc,        \* where the initializeModels call in flight stands ("idle": none)
    disposal,      \* whether disposeModels has run, and whether during the call in flight
    predCall,      \* the latest call, if a predictPlantHealth: its input, path and outcome
    acCall,        \* the latest call, if an analyzeAcousticPattern: its input, path and outcome
    scoreCall,     \* the latest calculateHealthScore call: its reading, fits and score
    sensorReadings, \* route.ts:4  Map<number, any[]>, as a function on its keys
    accepted,      \* every reading stored so far, per plant id, in ingestion order
    ingestClock,   \* the clock read by new Date() at route.ts:26, one tick per stored reading
    nPost,         \* number of single POST requests made so far (bounds the run)
    response,      \* the latest HTTP response of the endpoint
    snapshot       \* the field values read from the latest getPlantState result

vars == <<plantStates, now, nAdvance, lastReading, lastCall,
          healthModel, acousticModel, tf, initPc, disposal, predCall, acCall,
          scoreCall, sensorReadings, accepted, ingestClock, nPost, response,
          snapshot>>

simVars  == <<plantStates, now, nAdvance, lastReading, lastCall>>
predVars == <<healthModel, acousticModel, tf, initPc, disposal, predCall, acCall>>
scoreVars == <<scoreCall>>
apiVars  == <<sensorReadings, accepted, ingestClock, nPost, response>>
queryVars == <<snapshot>>

-----------------------------------------------------------------------------
(* Bounds of the model *)

MaxAdvance == 3
BurstLen == 40
MaxNow == 12
MaxPost == 2
RunLen == 100
FleetSteps == 2
BurstPosts == 1000

PlantIds == {1, 2}

\* The plants of a fleet, those of them that are read and watered, and the id lists
\* given to getAllPlantReadings.
FleetIds == {1, 2, 3}
ReadIds == {1, 2}
FleetLists == {<<1, 2>>, <<2, 1>>}

\* The draws of the calls made for a fleet.
FleetDraws == {<<0, 0, 0, 0>>, <<7, 7, 7, 7>>}
FleetInitDraws == {<<0, 0, 0, 0, 28, 0>>}

\* Hours the clock may move between two calls.
TickHours == {12}

\* Math.random() draws, as eighths.
Rand8 == {0, 4, 7}

\* The four draws of one generateSensorReading call (temperature, humidity,
\* moisture, light) and the six of one initializeSensorState call
\* (temperature, humidity, moisture, light, lastWatered, stressLevel).  The
\* lastWatered draw is in 1/56, so that whole hours of the week come out:
\* 28 is half a week ago, 16 is 48 hours ago.
AdvanceDraws == {<<0, 0, 0, 0>>, <<7, 7, 7, 7>>, <<4, 7, 0, 4>>}
InitDraws == {<<0, 0, 0, 0, 28, 0>>, <<7, 7, 7, 7, 0, 7>>}

\* optimalTemp arguments of initializeSensorState, in degrees.
OptimalTemps == {22, 40}

\* The draws of the dry run: the plant was last watered 48 hours before it
\* is initialised; a step of the run moves the moisture down or up, or moves
\* all four metrics up.
DryInitDraws == {<<0, 0, 0, 0, 16, 0>>, <<7, 7, 7, 7, 16, 7>>, <<4, 0, 7, 4, 16, 4>>}
DryDraws == {<<4, 4, 0, 4>>, <<4, 4, 7, 4>>, <<7, 7, 7, 7>>}

-----------------------------------------------------------------------------
(* Arithmetic *)

Max(a, b) == IF a >= b THEN a ELSE b
Min(a, b) == IF a <= b THEN a ELSE b
Abs(a) == IF a >= 0 THEN a ELSE -a

\* Math.round(n / d) for d > 0: the nearest integer, ties towards +infinity.
Round(n, d) == (2 * n + d) \div (2 * d)

RECURSIVE Pow10(_)
Pow10(k) == IF k = 0 THEN 1 ELSE 10 * Pow10(k - 1)

\* Scales
TS == 16
HS == 4
MS == 40
LS == 4
SS == 72000


NoReading == [plantId |-> 0, temperature |-> 0, humidity |-> 0,
              soilMoisture |-> 0, lightIntensity |-> 0, timestamp |-> 0]
NoCall == [op |-> "none", plantId |-> 0, ids |-> << >>, had |-> FALSE,
           soilBefore |-> 0, again |-> FALSE, soilBeforePrev |-> 0]

-----------------------------------------------------------------------------
(* iotSimulator.ts *)

\* plantStates.has(plantId)
Has(id) == id \in DOMAIN plantStates

\* A faulty variant of MapSet: the other entries are lost.
MapSetOnly(m, id, st) == (id :> st)

\* map.set(id, st): the entry of id is st, the other entries are those of m.
MapSet(m, id, st) == (id :> st) @@ m

\* The PlantState initializeSensorState stores (lines 35-43).
SeedState(id, optimalTemp, d, t) ==
    [ plantId        |-> id,
      temperature    |-> TS * optimalTemp + (d[1] - 4) * 8,      \* + (r - 0.5) * 4
      humidity       |-> HS * 60 + (d[2] - 4) * 10,              \* 60 + (r - 0.5) * 20
      soilMoisture   |-> MS * 60 + (d[3] - 4) * 150,             \* 60 + (r - 0.5) * 30
      lightIntensity |-> LS * 500 + (d[4] - 4) * 100,            \* 500 + (r - 0.5) * 200
      lastWatered    |-> t - d[5] * 3,                           \* now - r * 7 * 24 h
      stressLevel    |-> d[6] * 2700 ]                           \* r * 0.3

\* A faulty variant of BoundedStep: the upper bound is not applied.
BoundedStepNoUpper(value, change, lo, hi) == Max(lo, value + change)

\* Lines 61-64: Math.max(lo, Math.min(hi, value + change)).
BoundedStep(value, change, lo, hi) == Max(lo, Min(hi, value + change))

\* Lines 71-73: tempStress + humidityStress + moistureStress, which is three
\* times the mean, over the common denominator 24000 (|dT| / 160 at scale
\* TS, |dH| / 120 at scale HS, |dM| / 2000 at scale MS); so in units of 1/SS.
StressSum(temperature, humidity, soilMoisture) ==
    150 * Abs(temperature - TS * 22)
    + 200 * Abs(humidity - HS * 60)
    + 12 * Abs(soilMoisture - MS * 60)

\* A faulty variant of StressLevel: the soil moisture does not count.
StressLevelNoMoisture(temperature, humidity, soilMoisture) ==
    Min(SS, StressSum(temperature, humidity, MS * 60))

\* A faulty variant of StressLevel: the mean is not capped at 1.
StressLevelUncapped(temperature, humidity, soilMoisture) ==
    StressSum(temperature, humidity, soilMoisture)

\* Line 75: Math.min(1, sum / 3).
StressLevel(temperature, humidity, soilMoisture) ==
    Min(SS, StressSum(temperature, humidity, soilMoisture))

\* A faulty variant of StepState: the state keeps the metrics as rounded to
\* whole units.
StepStateRounded(st, d, t) ==
    LET temperature == BoundedStep(st.temperature, d[1] - 4, TS * 15, TS * 35)
        humidity    == BoundedStep(st.humidity, d[2] - 4, HS * 20, HS * 95)
        walked      == BoundedStep(st.soilMoisture, 15 * (d[3] - 4), MS * 10, MS * 100)
        light       == BoundedStep(st.lightIntensity, 25 * (d[4] - 4), 0, LS * 1000)
        soilMoisture == Max(MS * 10, walked - (t - st.lastWatered) * 6)
    IN  [ st EXCEPT !.temperature = TS * Round(temperature, TS),
                    !.humidity = HS * Round(humidity, HS),
                    !.soilMoisture = MS * Round(soilMoisture, MS),
                    !.lightIntensity = LS * Round(light, LS),
                    !.stressLevel = StressLevel(temperature, humidity, soilMoisture) ]

\* Lines 61-75: one step of the walk, the decay and the stress level.
StepState(st, d, t) ==
    LET temperature == BoundedStep(st.temperature, d[1] - 4, TS * 15, TS * 35)
        humidity    == BoundedStep(st.humidity, d[2] - 4, HS * 20, HS * 95)
        walked      == BoundedStep(st.soilMoisture, 15 * (d[3] - 4), MS * 10, MS * 100)
        light       == BoundedStep(st.lightIntensity, 25 * (d[4] - 4), 0, LS * 1000)
        hoursSinceWatered == t - st.lastWatered
        soilMoisture == Max(MS * 10, walked - hoursSinceWatered * 6)   \* 0.15 * MS = 6
    IN  [ st EXCEPT !.temperature = temperature,
                    !.humidity = humidity,
                    !.soilMoisture = soilMoisture,
                    !.lightIntensity = light,
                    !.stressLevel = StressLevel(temperature, humidity, soilMoisture) ]

RECURSIVE StepN(_, _, _, _)
StepN(st, d, t, n) == IF n = 0 THEN st ELSE StepN(StepState(st, d, t), d, t, n - 1)

\* Lines 82-90: the display-rounded reading (tenths; light in whole lux).
ReadingOf(id, st, t) ==
    [ plantId        |-> id,
      temperature    |-> Round(st.temperature * 10, TS),
      humidity       |-> Round(st.humidity * 10, HS),
      soilMoisture   |-> Round(st.soilMoisture * 10, MS),
      lightIntensity |-> Round(st.lightIntensity, LS),
      timestamp      |-> t ]

\* A faulty variant of WaterState: it saturates at 100, the bound of the walk.
WaterStateCap100(st, t) ==
    [ st EXCEPT !.soilMoisture = Min(MS * 100, st.soilMoisture + MS * 40),
                !.lastWatered = t ]

\* Lines 117-119 of waterPlant.
WaterState(st, t) ==
    [ st EXCEPT !.soilMoisture = Min(MS * 90, st.soilMoisture + MS * 40),
                !.lastWatered = t ]

\* The record of a call: the plant ids it names, whether the (first) plant
\* had a state, and for waterPlant
\* the soil moisture it started from, and whether the call before it was a
\* waterPlant of the same plant (and then the soil moisture that one
\* started from); for generateSensorReading, whether the call before it
\* was a waterPlant of the same plant.
Called(op, id) ==
    LET water == op = "waterPlant" /\ Has(id)
        again == /\ water \/ op = "generateSensorReading"
                 /\ lastCall.op = "waterPlant" /\ lastCall.plantId = id
    IN  [ op |-> op, plantId |-> id, ids |-> <<id>>, had |-> Has(id),
          soilBefore |-> IF water THEN plantStates[id].soilMoisture ELSE 0,
          again |-> again,
          soilBeforePrev |-> IF water /\ again THEN lastCall.soilBefore ELSE 0 ]

initializeSensorState(id, optimalTemp, d) ==
    /\ plantStates' = MapSet(plantStates, id, SeedState(id, optimalTemp, d, now))
    /\ lastCall' = Called("initializeSensorState", id)
    /\ lastReading' = NoReading
    /\ UNCHANGED <<now, nAdvance>>

generateSensorReading(id, di, d) ==
    /\ \E state \in {IF Has(id) THEN plantStates[id] ELSE SeedState(id, 22, di, now)} :
         \E next \in {StepState(state, d, now)} :
           /\ plantStates' = MapSet(plantStates, id, next)
           /\ lastReading' = ReadingOf(id, next, now)
    /\ nAdvance' = nAdvance + 1
    /\ lastCall' = Called("generateSensorReading", id)
    /\ UNCHANGED now

\* BurstLen calls of generateSensorReading(id) in a row (a polling loop), all
\* with the draws d, the clock standing still.
generateSensorReadingBurst(id, di, d) ==
    /\ \E state \in {IF Has(id) THEN plantStates[id] ELSE SeedState(id, 22, di, now)} :
         \E next \in {StepN(state, d, now, BurstLen)} :
           /\ plantStates' = MapSet(plantStates, id, next)
           /\ lastReading' = ReadingOf(id, next, now)
    /\ lastCall' = Called("generateSensorReading", id)
    /\ UNCHANGED <<now, nAdvance>>

\* A faulty variant of waterPlant: a plant without a state is given one.
waterPlantCreates(id) ==
    /\ plantStates' = MapSet(plantStates, id,
                             WaterState(IF Has(id) THEN plantStates[id]
                                        ELSE SeedState(id, 22, <<4, 4, 4, 4, 4, 4>>, now), now))
    /\ lastCall' = Called("waterPlant", id)
    /\ lastReading' = NoReading
    /\ UNCHANGED <<now, nAdvance>>

waterPlant(id) ==
    /\ plantStates' = IF Has(id)
                      THEN MapSet(plantStates, id, WaterState(plantStates[id], now))
                      ELSE plantStates
    /\ lastCall' = Called("waterPlant", id)
    /\ lastReading' = NoReading
    /\ UNCHANGED <<now, nAdvance>>

\* Lines 128-130: plantIds.map(id => generateSensorReading(id)): the map
\* after the calls for ids, in their order, each with the draws d (and di
\* for a plant that has no state yet).
RECURSIVE ReadAll(_, _, _, _, _)
ReadAll(m, ids, di, d, t) ==
    IF ids = << >> THEN m
    ELSE LET id    == Head(ids)
             state == IF id \in DOMAIN m THEN m[id] ELSE SeedState(id, 22, di, t)
         IN  ReadAll(MapSet(m, id, StepState(state, d, t)), Tail(ids), di, d, t)

getAllPlantReadings(ids, di, d) ==
    /\ ids # << >>
    /\ \E next \in {ReadAll(plantStates, ids, di, d, now)} :
         /\ plantStates' = next
         /\ lastReading' = ReadingOf(ids[Len(ids)], next[ids[Len(ids)]], now)
    /\ nAdvance' = nAdvance + Len(ids)
    /\ lastCall' = [Called("getAllPlantReadings", Head(ids)) EXCEPT !.ids = ids]
    /\ UNCHANGED now

\* Lines 124-126: plantStates.get(plantId), and the caller reads the fields
\* of the object it is given at once (the object itself goes on changing).
NoSnapshot == [defined |-> FALSE, plantId |-> 0, at |-> 0, soilMoisture |-> 0,
               lastWatered |-> 0, stressLevel |-> 0]
getPlantState(id) ==
    /\ snapshot' = IF Has(id)
                   THEN [defined |-> TRUE, plantId |-> id, at |-> now,
                         soilMoisture |-> plantStates[id].soilMoisture,
                         lastWatered |-> plantStates[id].lastWatered,
                         stressLevel |-> plantStates[id].stressLevel]
                   ELSE NoSnapshot
    /\ UNCHANGED simVars

\* The clock moves between calls.
Tick(h) ==
    /\ now + h <= MaxNow
    /\ now' = now + h
    /\ UNCHANGED <<plantStates, nAdvance, lastReading, lastCall>>

-----------------------------------------------------------------------------
(* tfModels.ts *)
(* healthScore and predictedHealth are in 1/100 point, temperature and     *)
(* humidity in 1/10, a model's outputs in 1/1000, confidence in 1/100.     *)

Undefined == -1

\* Inputs of predictPlantHealth.  input = null is the record with isNull.
NullInput == [isNull |-> TRUE, healthScore |-> 0, temperature |-> 0, humidity |-> 0]
HealthScores == {-1000, 0, 300, 4499, 5000, 9000, 9800, 10000, 15000}
HealthInput(healthScore, temperature, humidity) ==
    [isNull |-> FALSE, healthScore |-> healthScore,
     temperature |-> temperature, humidity |-> humidity]
HealthInputs ==
    {NullInput}
    \cup {HealthInput(h, 230, 600) : h \in HealthScores}
    \cup {HealthInput(300, 10000, 400), HealthInput(5000, 300, 400),
          HealthInput(7000, 215, 1000), HealthInput(9800, 180, 600)}

\* What a loaded model does in one inference: it throws before delivering
\* values (tensor2d, predict, dataSync: lines 115-122), or delivers
\* values[0] and values[1] and then dispose throws or not (lines 127-128).
Inferences ==
    [ throws : {"before"}, v0 : {0}, v1 : {Undefined} ]
    \cup [ throws : {"no"}, v0 : {-500, 550, 1200}, v1 : {Undefined} ]
    \cup [ throws : {"dispose"}, v0 : {1200}, v1 : {Undefined} ]
    \cup [ throws : {"no"}, v0 : {700}, v1 : {0, 905} ]
NoInference == [throws |-> "before", v0 |-> 0, v1 |-> Undefined]

Raised == [kind |-> "raised", predictedHealth |-> 0, confidence |-> 0, trend |-> "none"]
Returned(predictedHealth, confidence, trend) ==
    [kind |-> "returned", predictedHealth |-> predictedHealth,
     confidence |-> confidence, trend |-> trend]

\* A faulty variant of FallbackPrediction: the humidity term is left out.
FallbackNoHumidity(input) ==
    LET tempScore100 == 10000 - 50 * Abs(input.temperature - 230)
    IN  100 * Round(2 * input.healthScore + tempScore100, 400)

\* Lines 134-138: round(healthScore * 0.5 + tempScore * 0.25 + humidityScore * 0.25),
\* computed over the denominator 400 (healthScore in 1/100, the others in 1/10).
FallbackPrediction(input) ==
    LET tempScore100     == 10000 - 50 * Abs(input.temperature - 230)
        humidityScore100 == 10000 - 15 * Abs(input.humidity - 600)
    IN  100 * Round(2 * input.healthScore + tempScore100 + humidityScore100, 400)

\* Line 124: Math.round(values[0] * 100).
ModelPrediction(inf) == 100 * Round(inf.v0, 10)

\* Line 125: values[1] || 0.75, in 1/1000.
ModelConfidence(inf) == IF inf.v1 = Undefined \/ inf.v1 = 0 THEN 750 ELSE inf.v1

\* A faulty variant of Trend: the band's ends count as a change.
TrendInclusive(predictedHealth, healthScore) ==
    IF predictedHealth >= healthScore + 500 THEN "improving"
    ELSE IF predictedHealth <= healthScore - 500 THEN "declining"
    ELSE "stable"

\* Lines 143-148.
Trend(predictedHealth, healthScore) ==
    IF predictedHealth > healthScore + 500 THEN "improving"
    ELSE IF predictedHealth < healthScore - 500 THEN "declining"
    ELSE "stable"

\* A faulty variant of ClampHealth: no floor at 0.
ClampHealthNoFloor(predictedHealth) == Min(10000, predictedHealth)

\* Line 151: Math.max(0, Math.min(100, predictedHealth)).
ClampHealth(predictedHealth) == Max(0, Min(10000, predictedHealth))

\* Lines 109-140: the path taken and the prediction and confidence (in
\* 1/1000) it leaves in the locals.
Locals(input, model, tfPresent, inf) ==
    IF model # "null" /\ tfPresent
    THEN IF inf.throws = "before"
         THEN [path |-> "modelFailed", predictedHealth |-> input.healthScore, confidence |-> 700]
         ELSE [path |-> IF inf.throws = "dispose" THEN "modelFailed" ELSE "model",
               predictedHealth |-> ModelPrediction(inf), confidence |-> ModelConfidence(inf)]
    ELSE [path |-> "fallback", predictedHealth |-> FallbackPrediction(input), confidence |-> 650]

\* Lines 107-163.  Reading input.healthScore of a null input throws at line
\* 109, inside the try; the handler reads input.healthScore again at line
\* 158 and throws out of the function.
PredictPlantHealth(input, model, tfPresent, inf) ==
    IF input.isNull
    THEN [path |-> "error", raw |-> 0, result |-> Raised]
    ELSE LET l == Locals(input, model, tfPresent, inf)
         IN  [path |-> l.path, raw |-> l.predictedHealth,
              result |-> Returned(ClampHealth(l.predictedHealth),
                                  Round(l.confidence, 10),
                                  Trend(l.predictedHealth, input.healthScore))]

\* Inputs of analyzeAcousticPattern: the feature argument is missing (null
\* or undefined), an array of numbers, or a value that is no array.
Features(kind, values) == [kind |-> kind, values |-> values]
FeatureInputs ==
    {Features("missing", << >>), Features("notArray", << >>), Features("array", << >>)}
    \cup {Features("array", v) :
            v \in {<<100, 100>>, <<100, 300>>, <<150, 250>>, <<0, 2000>>, <<40, 360>>,
                   <<-300, 100>>, <<-1, 1>>, <<100, 100, 300, 300>>}}
PlantHealthScores == {0, 5000, 9990, 10000, 15000, -5000}

\* The (audioFeatures, plantHealthScore) pairs of the modelled calls.
AnalyzeInputs ==
    {<<f, 5000>> : f \in FeatureInputs}
    \cup {<<Features("array", <<100, 300>>), h>> : h \in PlantHealthScores}
    \cup {<<Features("array", <<0, 2000>>), h>> : h \in {0, 9990, 10000}}
    \cup {<<Features("array", <<100, 100>>), 10000>>}
    \cup {<<Features("array", << >>), h>> : h \in {0, 15000}}
    \cup {<<Features("missing", << >>), -5000>>}

AcousticRaised == [kind |-> "raised", stressLevel |-> 0, classification |-> "none",
                   confidence |-> 0]
AcousticReturned(stressLevel, classification, confidence) ==
    [kind |-> "returned", stressLevel |-> stressLevel,
     classification |-> classification, confidence |-> confidence]

\* A faulty variant of NeutralResult: 0.5 is classified by the thresholds.
NeutralModerate == AcousticReturned(500, "moderate_stress", 50)

\* Lines 171-175 and 225-229: { stressLevel: 0.5, classification: 'healthy',
\* confidence: 0.5 }; stressLevel in 1/1000, confidence in 1/100.
NeutralResult == AcousticReturned(500, "healthy", 50)

RECURSIVE SumSeq(_)
SumSeq(v) == IF v = << >> THEN 0 ELSE Head(v) + SumSeq(Tail(v))

\* The largest r in lo..hi with r * r <= n (Math.sqrt, rounded down).
RECURSIVE SqrtBetween(_, _, _)
SqrtBetween(n, lo, hi) ==
    IF lo >= hi THEN lo
    ELSE LET mid == (lo + hi + 1) \div 2
         IN  IF mid * mid <= n THEN SqrtBetween(n, mid, hi)
             ELSE SqrtBetween(n, lo, mid - 1)
Sqrt(n) == SqrtBetween(n, 0, 46340)

\* floor(a * 10^digits / b) for 0 <= a < b, by long division.
RECURSIVE Digits(_, _, _)
Digits(a, b, digits) ==
    IF digits = 0 THEN 0
    ELSE LET q == (10 * a) \div b
             r == (10 * a) % b
         IN  q * Pow10(digits - 1) + Digits(r, b, digits - 1)

\* Lines 199-201: Math.min(1.0, Math.sqrt(variance) / (mean + 0.001)), in
\* 1/1000000.  With n values of sum s, n * n * variance is the sum of the
\* (n * x - s)^2 over n, and the quotient is 1000 * n * sd / (1000 * s + n).
VariationCapped(values) ==
    LET n   == Len(values)
        s   == SumSeq(values)
        v   == SumSeq([i \in 1..n |-> (n * values[i] - s) * (n * values[i] - s)])
        sd  == Sqrt(v \div (n * n * n))
        num == 1000 * n * sd
        den == 1000 * s + n
    IN  IF den > 0
        THEN IF num >= den THEN 1000000 ELSE Digits(num, den, 6)
        ELSE IF den < 0
        THEN -((num \div (-den)) * 1000000 + Digits(num % (-den), -den, 6))
        ELSE 1000000    \* x / 0 is Infinity (or NaN for 0 / 0): not met, n < 1000

\* Lines 204-205: stressLevel * 0.7 + (1 - plantHealthScore / 100) * 0.3, in
\* 1/10000000.
FallbackStress(values, plantHealthScore) ==
    7 * VariationCapped(values) + 3 * (1000000 - 100 * plantHealthScore)

\* A faulty variant of FallbackConfidence: it grows with the distance of
\* the stress level from 0.5.
FallbackConfidenceExtremes(stress7) ==
    60000000 + 2 * (5000000 + Abs(stress7 - 5000000))

\* Line 207: 0.6 + 0.2 * (1 - |stressLevel - 0.5|), in 1/100000000.
FallbackConfidence(stress7) ==
    60000000 + 2 * (10000000 - Abs(stress7 - 5000000))

\* A faulty variant of Classify: the stress level is rounded to three
\* decimals before it is compared.
ClassifyRounded(stress7) ==
    IF Round(stress7, 10000) > 700 THEN "high_stress"
    ELSE IF Round(stress7, 10000) > 400 THEN "moderate_stress"
    ELSE "healthy"

\* A faulty variant of Classify: the thresholds themselves count as above.
ClassifyInclusive(stress7) ==
    IF stress7 >= 7000000 THEN "high_stress"
    ELSE IF stress7 >= 4000000 THEN "moderate_stress"
    ELSE "healthy"

\* Lines 211-216, stressLevel in 1/10000000.
Classify(stress7) ==
    IF stress7 > 7000000 THEN "high_stress"
    ELSE IF stress7 > 4000000 THEN "moderate_stress"
    ELSE "healthy"

\* Lines 178-208: the path taken and the stress level (1/10000000) and
\* confidence (1/100000000) it leaves in the locals.  On the model path a
\* value that is no array makes tensor2d throw, like a failing inference.
AcousticLocals(audioFeatures, plantHealthScore, model, tfPresent, inf) ==
    IF model # "null" /\ tfPresent
    THEN IF inf.throws = "before" \/ audioFeatures.kind = "notArray"
         THEN [path |-> "modelFailed", stressLevel |-> 5000000, confidence |-> 65000000]
         ELSE [path |-> IF inf.throws = "dispose" THEN "modelFailed" ELSE "model",
               stressLevel |-> 10000 * Min(1000, Max(0, inf.v0)),
               confidence |-> 100000 * (IF inf.v1 = Undefined \/ inf.v1 = 0
                                        THEN 650 ELSE inf.v1)]
    ELSE LET stress7 == FallbackStress(audioFeatures.values, plantHealthScore)
         IN  [path |-> "fallback", stressLevel |-> stress7,
              confidence |-> FallbackConfidence(stress7)]

\* Lines 165-231.  A value that is no array has no reduce: on the fallback
\* path line 199 throws and the handler of line 223 answers.
AnalyzeAcousticPattern(audioFeatures, plantHealthScore, model, tfPresent, inf) ==
    IF audioFeatures.kind = "missing" \/
       (audioFeatures.kind = "array" /\ audioFeatures.values = << >>)
    THEN [path |-> "empty", raw |-> 0, result |-> NeutralResult]
    ELSE IF audioFeatures.kind = "notArray" /\ ~(model # "null" /\ tfPresent)
    THEN [path |-> "error", raw |-> 0, result |-> NeutralResult]
    ELSE LET l == AcousticLocals(audioFeatures, plantHealthScore, model, tfPresent, inf)
         IN  [path |-> l.path, raw |-> l.stressLevel,
              result |-> AcousticReturned(Round(l.stressLevel, 10000),
                                          Classify(l.stressLevel),
                                          Round(l.confidence, 1000000))]

NoAnalysis == [op |-> "none", audioFeatures |-> Features("missing", << >>),
               plantHealthScore |-> 0, model |-> "null", inference |-> NoInference,
               path |-> "none", raw |-> 0, result |-> AcousticRaised]

NoPrediction == [op |-> "none", input |-> NullInput, model |-> "null",
                 inference |-> NoInference,
                 path |-> "none", raw |-> 0, result |-> Raised]

predictPlantHealth(input, inf) ==
    /\ \E out \in {PredictPlantHealth(input, healthModel, tf, inf)} :
         predCall' = [op |-> "predictPlantHealth", input |-> input,
                      model |-> healthModel, inference |-> inf,
                      path |-> out.path, raw |-> out.raw, result |-> out.result]
    /\ acCall' = NoAnalysis
    /\ UNCHANGED <<healthModel, acousticModel, tf, initPc, disposal>>

analyzeAcousticPattern(audioFeatures, plantHealthScore, inf) ==
    /\ \E out \in {AnalyzeAcousticPattern(audioFeatures, plantHealthScore,
                                          acousticModel, tf, inf)} :
         acCall' = [op |-> "analyzeAcousticPattern", audioFeatures |-> audioFeatures,
                    plantHealthScore |-> plantHealthScore,
                    model |-> acousticModel, inference |-> inf,
                    path |-> out.path, raw |-> out.raw, result |-> out.result]
    /\ predCall' = NoPrediction
    /\ UNCHANGED <<healthModel, acousticModel, tf, initPc, disposal>>

\* No disposeModels call has been made.
NoDisposal == [called |-> FALSE, during |-> FALSE]

\* initializeModels, lines 70-105, one step per await.
\* Lines 75-77: window.tf is absent, so loadTensorFlow is awaited; else the
\* health model load starts.
initializeModelsStart ==
    /\ initPc = "idle"
    /\ initPc' = IF tf THEN "health" ELSE "tensorflow"
    /\ disposal' = [disposal EXCEPT !.during = FALSE]
    /\ UNCHANGED <<healthModel, acousticModel, tf, predCall, acCall>>

\* Lines 34-46: the wait ends because the script set window.tf, or because
\* ten seconds passed without it.
loadTensorFlowDone(loaded) ==
    /\ initPc = "tensorflow"
    /\ tf' = loaded
    /\ initPc' = "health"
    /\ UNCHANGED <<healthModel, acousticModel, disposal, predCall, acCall>>

\* Lines 80-89: with window.tf, loadLayersModel resolves and the model is
\* stored, or rejects and the old value stays.
healthModelLoadDone(found) ==
    /\ initPc = "health"
    /\ healthModel' = IF tf /\ found THEN "loaded" ELSE healthModel
    /\ initPc' = "acoustic"
    /\ UNCHANGED <<acousticModel, tf, disposal, predCall, acCall>>

\* Lines 92-101.
acousticModelLoadDone(found) ==
    /\ initPc = "acoustic"
    /\ acousticModel' = IF tf /\ found THEN "loaded" ELSE acousticModel
    /\ initPc' = "idle"
    /\ disposal' = [disposal EXCEPT !.during = FALSE]
    /\ UNCHANGED <<healthModel, tf, predCall, acCall>>

\* A faulty variant of disposeModels: the handles are disposed but the
\* variables keep them.
disposeModelsKeepHandles ==
    /\ healthModel' = IF healthModel # "null" THEN "disposed" ELSE "null"
    /\ acousticModel' = IF acousticModel # "null" THEN "disposed" ELSE "null"
    /\ disposal' = [called |-> TRUE, during |-> initPc # "idle"]
    /\ UNCHANGED <<tf, initPc, predCall, acCall>>

\* Lines 233-242: each handle held is disposed and its variable set to
\* null, in one synchronous call.
disposeModels ==
    /\ healthModel' = "null"
    /\ acousticModel' = "null"
    /\ disposal' = [called |-> TRUE, during |-> initPc # "idle"]
    /\ UNCHANGED <<tf, initPc, predCall, acCall>>

-----------------------------------------------------------------------------
(* calculateHealthScore, iotSimulator.ts lines 133-141 *)

\* A SensorReading as calculateHealthScore reads it: temperature, humidity
\* and soilMoisture in 1/10, lightIntensity in lux.
Reading(temperature, humidity, soilMoisture, lightIntensity) ==
    [temperature |-> temperature, humidity |-> humidity,
     soilMoisture |-> soilMoisture, lightIntensity |-> lightIntensity]

\* Readings inside, on the edge of and far outside the simulator's hard ranges.
ScoreReadings ==
    {Reading(t, h, m, l) : t \in {-1000, 150, 220, 350, 5000},
                           h \in {0, 200, 600, 950, 3000},
                           m \in {-500, 100, 600, 1000, 9000},
                           l \in {-50000, 0, 50, 100, 101, 1000}}

\* Lines 134-137: the four fits, each in 1/1500.
TempFit(reading) == 1500 - 10 * Abs(reading.temperature - 220)
HumidityFit(reading) == 1500 - 5 * Abs(reading.humidity - 600)
MoistureFit(reading) == 1500 - 3 * Abs(reading.soilMoisture - 600)
LightFit(reading) ==
    IF reading.lightIntensity > 100 THEN 1500 ELSE 15 * reading.lightIntensity

\* Lines 139-140: Math.round(avgFit * 100), avgFit the mean of the four fits.
RoundedFit(reading) ==
    Round(TempFit(reading) + HumidityFit(reading)
            + MoistureFit(reading) + LightFit(reading), 60)

\* A faulty variant of ClampScore: no floor at 10.
ClampScoreNoFloor(score) == Min(100, score)

\* Line 140: Math.max(10, Math.min(100, score)).
ClampScore(score) == Max(10, Min(100, score))

CalculateHealthScore(reading) == ClampScore(RoundedFit(reading))

NoScore == [op |-> "none", reading |-> Reading(0, 0, 0, 0), rounded |-> 0, score |-> 0]

calculateHealthScore(reading) ==
    scoreCall' = [op |-> "calculateHealthScore", reading |-> reading,
                  rounded |-> RoundedFit(reading),
                  score |-> CalculateHealthScore(reading)]

-----------------------------------------------------------------------------
(* The ingestion endpoint, src/app/api/sensors/ingest/route.ts *)

\* Line 38: the number of readings kept per plant.
MaxStored == 1000

\* A JSON value of a body field: a number, or undefined when the field is
\* missing from the body.
Absent == [kind |-> "undefined", n |-> 0]
Num(n) == [kind |-> "number", n |-> n]

\* Line 12: !value, for a number or undefined.
Falsy(value) == value.kind = "undefined" \/ value.n = 0

\* A request body: JSON that request.json() parses into an object with the
\* fields below (temperature and humidity in 1/10), or text it rejects.
\* The optional fields (soilMoisture, lightIntensity, acousticData) are
\* missing from the modelled bodies.
Body(plantId, temperature, humidity) ==
    [malformed |-> FALSE, plantId |-> plantId,
     temperature |-> temperature, humidity |-> humidity]
MalformedBody == [malformed |-> TRUE, plantId |-> Absent,
                  temperature |-> Absent, humidity |-> Absent]

\* The bodies a sensor posts again and again, and the bodies of single requests.
BurstBodies == {Body(Num(1), Num(215), Num(600))}
Bodies ==
    BurstBodies
    \cup {Body(Num(2), Num(215), Num(600)), Body(Num(1), Num(0), Num(0)),
          Body(Num(0), Num(215), Num(600)), Body(Absent, Num(215), Num(600)),
          Body(Num(1), Absent, Num(600)), Body(Num(1), Num(215), Absent),
          MalformedBody}

\* Lines 19-27: the stored reading; its optional fields are null.
StoredReading(body, t) ==
    [plantId |-> body.plantId.n, temperature |-> body.temperature.n,
     humidity |-> body.humidity.n, timestamp |-> t]
NoStoredReading == [plantId |-> 0, temperature |-> 0, humidity |-> 0, timestamp |-> -1]

\* Line 12: the body lacks a required field.
Rejected(body) ==
    Falsy(body.plantId) \/ body.temperature.kind = "undefined"
                        \/ body.humidity.kind = "undefined"

\* map.get(id) ?? [] (lines 30-34 and 76).
ReadingsOf(m, id) == IF id \in DOMAIN m THEN m[id] ELSE << >>

\* A faulty variant of Evict: the newest reading is dropped (pop for shift).
EvictNewest(readings) ==
    IF Len(readings) > MaxStored THEN SubSeq(readings, 1, Len(readings) - 1)
    ELSE readings

\* Lines 38-40: readings.shift() when more than 1000 are held.
Evict(readings) ==
    IF Len(readings) > MaxStored THEN Tail(readings) ELSE readings

\* Lines 30-40: the map after the reading is pushed to its plant's array.
Store(m, reading) ==
    MapSet(m, reading.plantId, Evict(Append(ReadingsOf(m, reading.plantId), reading)))

\* A query parameter: missing, or its text as a sequence of characters.
NoParam == [present |-> FALSE, text |-> << >>]
Param(text) == [present |-> TRUE, text |-> text]

\* The request a response answers: the body of a POST, the parameters of a GET.
PostRequest(body) == [body |-> body, plantId |-> NoParam, limit |-> NoParam]
GetRequest(plantId, limit) == [body |-> MalformedBody, plantId |-> plantId, limit |-> limit]

\* The responses of the endpoint, with the request they answer.
Response(method, status, request) ==
    [method |-> method, status |-> status, request |-> request,
     success |-> FALSE, reading |-> NoStoredReading,
     plantId |-> 0, readingCount |-> 0, readings |-> << >>]
NoResponse == [method |-> "none", status |-> 0, request |-> PostRequest(MalformedBody),
               success |-> FALSE, reading |-> NoStoredReading,
               plantId |-> 0, readingCount |-> 0, readings |-> << >>]

\* Lines 6-59, without the request count: the new map, log, clock and response.
Post(m, log, clock, body) ==
    IF body.malformed
    THEN [m |-> m, log |-> log, clock |-> clock,
          response |-> Response("POST", 500, PostRequest(body))]
    ELSE IF Rejected(body)
    THEN [m |-> m, log |-> log, clock |-> clock,
          response |-> Response("POST", 400, PostRequest(body))]
    ELSE LET reading == StoredReading(body, clock)
         IN  [m |-> Store(m, reading),
              log |-> MapSet(log, reading.plantId,
                             Append(ReadingsOf(log, reading.plantId), reading)),
              clock |-> clock + 1,
              response |-> [Response("POST", 201, PostRequest(body)) EXCEPT
                               !.success = TRUE, !.reading = reading]]

\* n POST requests with the same body, one after the other: the first
\* half of them, then the rest.
RECURSIVE PostN(_, _, _, _, _)
PostN(m, log, clock, body, n) ==
    IF n = 1 THEN Post(m, log, clock, body)
    ELSE CHOOSE out \in {PostN(half.m, half.log, half.clock, body, n - n \div 2) :
                            half \in {PostN(m, log, clock, body, n \div 2)}} : TRUE

POST(body) ==
    /\ nPost < MaxPost
    /\ nPost' = nPost + 1
    /\ \E out \in {Post(sensorReadings, accepted, ingestClock, body)} :
         /\ sensorReadings' = out.m
         /\ accepted' = out.log
         /\ ingestClock' = out.clock
         /\ response' = out.response

POSTBurst(body) ==
    /\ \E out \in {PostN(sensorReadings, accepted, ingestClock, body, BurstPosts)} :
         /\ sensorReadings' = out.m
         /\ accepted' = out.log
         /\ ingestClock' = out.clock
         /\ response' = out.response
    /\ UNCHANGED nPost

\* parseInt of a text: an optional sign, then the longest prefix of decimal
\* digits; NaN when there is no digit.  (Leading blanks are not modelled.)
DigitChars == <<"0", "1", "2", "3", "4", "5", "6", "7", "8", "9">>
IsDigit(c) == \E d \in 1..10 : DigitChars[d] = c
DigitValue(c) == (CHOOSE d \in 1..10 : DigitChars[d] = c) - 1
NaN == [nan |-> TRUE, n |-> 0]
Int32(n) == [nan |-> FALSE, n |-> n]

RECURSIVE DigitPrefix(_, _, _)
DigitPrefix(text, value, count) ==
    IF text = << >> \/ ~IsDigit(Head(text))
    THEN [value |-> value, count |-> count]
    ELSE DigitPrefix(Tail(text), 10 * value + DigitValue(Head(text)), count + 1)

ParseInt(text) ==
    LET signed == text # << >> /\ Head(text) \in {"-", "+"}
        prefix == DigitPrefix(IF signed THEN Tail(text) ELSE text, 0, 0)
    IN  IF prefix.count = 0 THEN NaN
        ELSE IF signed /\ Head(text) = "-" THEN Int32(-prefix.value)
        ELSE Int32(prefix.value)

\* Array.prototype.slice(start): NaN counts as 0, a negative start counts
\* from the end, and -0 is 0.
Slice(readings, start) ==
    LET len == Len(readings)
        k   == IF start.nan THEN 0
               ELSE IF start.n < 0 THEN Max(len + start.n, 0)
               ELSE Min(start.n, len)
    IN  SubSeq(readings, k + 1, len)

\* Unary minus of line 77.
Negate(number) == IF number.nan THEN NaN ELSE Int32(-number.n)

\* Lines 61-94.
Get(m, plantId, limit) ==
    LET limitNum == ParseInt(IF limit.present THEN limit.text ELSE <<"1", "0", "0">>)
    IN  IF ~plantId.present \/ plantId.text = << >>
        THEN Response("GET", 400, GetRequest(plantId, limit))
        ELSE LET plantIdNum == ParseInt(plantId.text)
                 readings   == IF plantIdNum.nan THEN << >>
                               ELSE ReadingsOf(m, plantIdNum.n)
                 recentReadings == Slice(readings, Negate(limitNum))
             IN  [Response("GET", 200, GetRequest(plantId, limit)) EXCEPT
                     !.success = TRUE, !.plantId = plantIdNum.n,
                     !.readingCount = Len(recentReadings),
                     !.readings = recentReadings]

GET(plantId, limit) ==
    /\ response' = Get(sensorReadings, plantId, limit)
    /\ UNCHANGED <<sensorReadings, accepted, ingestClock, nPost>>

\* The (plantId, limit) parameters of the modelled GET requests.
GetRequests ==
    {<<Param(<<"1">>), l>> :
        l \in {NoParam, Param(<<"0">>), Param(<<"2">>), Param(<<"1", "0", "0", "0">>),
               Param(<<"1", "0", "0", "1">>), Param(<<"-", "1">>),
               Param(<<"a", "b", "c">>), Param(<<"2", ".", "9">>)}}
    \cup {<<p, NoParam>> : p \in {NoParam, Param(<< >>), Param(<<"2">>), Param(<<"7">>),
                                  Param(<<"a", "b", "c">>)}}
    \cup {<<Param(<<"2">>), Param(<<"0">>)>>}

-----------------------------------------------------------------------------
(* Specifications *)

\* The draws of the lazy initialisation are made only when the plant has no state.
LazyDraws(id) == IF Has(id) THEN {<<4, 4, 4, 4, 4, 4>>} ELSE InitDraws

\* A run of SimSpec follows one plant of the fleet, whichever it is: a call
\* is made for plant id only while no other plant has a state.
Sole(id) == DOMAIN plantStates \subseteq {id}

Initialize == \E id \in PlantIds, t \in OptimalTemps, d \in InitDraws :
                 Sole(id) /\ initializeSensorState(id, t, d)
Advance == \E id \in PlantIds, d \in AdvanceDraws : \E di \in LazyDraws(id) :
                 Sole(id) /\ nAdvance < MaxAdvance /\ generateSensorReading(id, di, d)
\* A burst is the first thing done with a plant's fresh state.
Fresh(id) == \/ ~Has(id)
             \/ lastCall.op = "initializeSensorState" /\ lastCall.plantId = id

AdvanceBurst == \E id \in PlantIds, d \in AdvanceDraws : \E di \in LazyDraws(id) :
                 Sole(id) /\ Fresh(id) /\ generateSensorReadingBurst(id, di, d)
Water == \E id \in PlantIds : Sole(id) /\ waterPlant(id)
Clock == \E h \in TickHours : Tick(h)

SimNext ==
    \/ Initialize /\ UNCHANGED <<predVars, scoreVars, apiVars, queryVars>>
    \/ Advance /\ UNCHANGED <<predVars, scoreVars, apiVars, queryVars>>
    \/ AdvanceBurst /\ UNCHANGED <<predVars, scoreVars, apiVars, queryVars>>
    \/ Water /\ UNCHANGED <<predVars, scoreVars, apiVars, queryVars>>
    \/ Clock /\ UNCHANGED <<predVars, scoreVars, apiVars, queryVars>>

\* The state after the modules are loaded: no plant state, no model, no
\* stored reading.
Init ==
    /\ plantStates = << >>
    /\ now = 0
    /\ nAdvance = 0
    /\ lastReading = NoReading
    /\ lastCall = NoCall
    /\ healthModel = "null"
    /\ acousticModel = "null"
    /\ tf = FALSE
    /\ initPc = "idle"
    /\ disposal = NoDisposal
    /\ predCall = NoPrediction
    /\ acCall = NoAnalysis
    /\ scoreCall = NoScore
    /\ sensorReadings = << >>
    /\ accepted = << >>
    /\ ingestClock = 0
    /\ nPost = 0
    /\ response = NoResponse
    /\ snapshot = NoSnapshot

SimSpec == Init /\ [][SimNext]_vars

\* What the model does matters only when the call reaches it.
InferencesOf(model) == IF model # "null" /\ tf THEN Inferences ELSE {NoInference}

Predict == \E input \in HealthInputs, inf \in InferencesOf(healthModel) :
               predictPlantHealth(input, inf)
Analyze == \E in \in AnalyzeInputs, inf \in InferencesOf(acousticModel) :
               analyzeAcousticPattern(in[1], in[2], inf)
LoadTensorFlow == \E loaded \in BOOLEAN : loadTensorFlowDone(loaded)
LoadHealthModel == \E found \in BOOLEAN : healthModelLoadDone(found)
LoadAcousticModel == \E found \in BOOLEAN : acousticModelLoadDone(found)

PredNext ==
    \/ initializeModelsStart /\ UNCHANGED <<simVars, scoreVars, apiVars, queryVars>>
    \/ LoadTensorFlow /\ UNCHANGED <<simVars, scoreVars, apiVars, queryVars>>
    \/ LoadHealthModel /\ UNCHANGED <<simVars, scoreVars, apiVars, queryVars>>
    \/ LoadAcousticModel /\ UNCHANGED <<simVars, scoreVars, apiVars, queryVars>>
    \/ disposeModels /\ UNCHANGED <<simVars, scoreVars, apiVars, queryVars>>
    \/ Predict /\ UNCHANGED <<simVars, scoreVars, apiVars, queryVars>>
    \/ Analyze /\ UNCHANGED <<simVars, scoreVars, apiVars, queryVars>>

PredSpec == Init /\ [][PredNext]_vars

\* The dry run: plant 1 is initialised with baseline 22, its state is read,
\* and generateSensorReading is called RunLen times; it is never watered.
DryInitialize == \E d \in DryInitDraws :
                    plantStates = << >> /\ initializeSensorState(1, 22, d)
DryQuery == Has(1) /\ ~snapshot.defined /\ getPlantState(1)
DryAdvance == \E d \in DryDraws :
                 /\ snapshot.defined /\ nAdvance < RunLen
                 /\ generateSensorReading(1, <<4, 4, 4, 4, 4, 4>>, d)

DryNext ==
    \/ DryInitialize /\ UNCHANGED <<predVars, scoreVars, apiVars, queryVars>>
    \/ DryQuery /\ UNCHANGED <<predVars, scoreVars, apiVars>>
    \/ DryAdvance /\ UNCHANGED <<predVars, scoreVars, apiVars, queryVars>>
    \/ Clock /\ UNCHANGED <<predVars, scoreVars, apiVars, queryVars>>

DrySpec == Init /\ [][DryNext]_vars

\* The fleet: calls for several plants in any order.
FleetInitialize == \E id \in FleetIds, d \in FleetInitDraws : initializeSensorState(id, 22, d)
FleetAdvance == \E id \in ReadIds, d \in FleetDraws, di \in FleetInitDraws :
                   nAdvance < FleetSteps /\ generateSensorReading(id, di, d)
FleetReadAll == \E ids \in FleetLists, d \in FleetDraws, di \in FleetInitDraws :
                   nAdvance + Len(ids) <= FleetSteps /\ getAllPlantReadings(ids, di, d)
FleetWater == \E id \in ReadIds : waterPlant(id)

FleetNext ==
    \/ FleetInitialize /\ UNCHANGED <<predVars, scoreVars, apiVars, queryVars>>
    \/ FleetAdvance /\ UNCHANGED <<predVars, scoreVars, apiVars, queryVars>>
    \/ FleetReadAll /\ UNCHANGED <<predVars, scoreVars, apiVars, queryVars>>
    \/ FleetWater /\ UNCHANGED <<predVars, scoreVars, apiVars, queryVars>>
    \/ Clock /\ UNCHANGED <<predVars, scoreVars, apiVars, queryVars>>

FleetSpec == Init /\ [][FleetNext]_vars

Score == \E reading \in ScoreReadings : calculateHealthScore(reading)

ScoreNext ==
    \/ Score /\ UNCHANGED <<simVars, predVars, apiVars, queryVars>>

ScoreSpec == Init /\ [][ScoreNext]_vars

Ingest == \E body \in Bodies : POST(body)
\* A sensor's run of periodic posts; one such run is followed.
IngestBurst == \E body \in BurstBodies : ingestClock < BurstPosts /\ POSTBurst(body)
Query == \E request \in GetRequests : GET(request[1], request[2])

ApiNext ==
    \/ Ingest /\ UNCHANGED <<simVars, predVars, scoreVars, queryVars>>
    \/ IngestBurst /\ UNCHANGED <<simVars, predVars, scoreVars, queryVars>>
    \/ Query /\ UNCHANGED <<simVars, predVars, scoreVars, queryVars>>

ApiSpec == Init /\ [][ApiNext]_vars

-----------------------------------------------------------------------------
(* Properties of the simulator, checked under SimSpec *)

\* The hard ranges of lines 61-64.
InHardRange(st) ==
    /\ TS * 15 <= st.temperature /\ st.temperature <= TS * 35
    /\ HS * 20 <= st.humidity /\ st.humidity <= HS * 95
    /\ MS * 10 <= st.soilMoisture /\ st.soilMoisture <= MS * 100
    /\ 0 <= st.lightIntensity /\ st.lightIntensity <= LS * 1000

AfterAdvance == lastCall.op = "generateSensorReading"
AfterWater == lastCall.op = "waterPlant" /\ lastCall.had
Target == plantStates[lastCall.plantId]

\* C1: when generateSensorReading returns, in any interleaving with
\* waterPlant (and initializeSensorState) calls, the four metrics of the
\* advanced plant are within their hard ranges.
C1_AdvanceWithinHardRange == AfterAdvance => InHardRange(Target)

\* C1 witness: an advance has just returned with the clamps at work: the
\* plant was seeded above 35 degrees and now sits on the bound.
C1_Witness ==
    /\ AfterAdvance
    /\ Target.temperature = TS * 35
    /\ Target.soilMoisture = MS * 10

\* C2 (as claimed): every stored state has its four metrics within the hard
\* ranges after every mutation, initializeSensorState and waterPlant included.
C2_AlwaysWithinHardRange ==
    \A id \in DOMAIN plantStates : InHardRange(plantStates[id])

\* C3: after every generateSensorReading the stress level is in [0, 1].
C3_StressInUnitInterval ==
    AfterAdvance => (0 <= Target.stressLevel /\ Target.stressLevel <= SS)

\* C3 witness: an advance has returned in a state whose three deviation
\* terms average to more than 1, so that the cap decided the result.
C3_Witness ==
    /\ AfterAdvance
    /\ StressSum(Target.temperature, Target.humidity, Target.soilMoisture) > SS
    /\ Target.stressLevel = SS

\* C4 (as claimed): right after waterPlant of an initialised plant the soil
\* moisture is at least what it was before the call, and at most 90.
C4_WaterNeverDecreases ==
    AfterWater => /\ Target.soilMoisture >= lastCall.soilBefore
                  /\ Target.soilMoisture <= MS * 90

\* C5 (as claimed): a second waterPlant directly after a first leaves the
\* soil moisture the first one produced.
C5_WaterIdempotent ==
    (AfterWater /\ lastCall.again) => Target.soilMoisture = lastCall.soilBefore

\* C5 (amended): waterPlant saturates: after two calls in a row the soil
\* moisture is exactly 90, and the second call reproduces the result of the
\* first exactly when the soil moisture was at least 50 before the first.
C5_WaterSaturates ==
    (AfterWater /\ lastCall.again) =>
        /\ Target.soilMoisture = MS * 90
        /\ (Target.soilMoisture = lastCall.soilBefore) <=> (lastCall.soilBeforePrev >= MS * 50)

\* C5 witness: two waterPlant calls in a row on a plant that started below
\* 50, so the second call still raised the soil moisture.
C5_Witness ==
    /\ AfterWater /\ lastCall.again
    /\ lastCall.soilBeforePrev < MS * 50
    /\ lastCall.soilBefore < MS * 90

-----------------------------------------------------------------------------
(* Properties of the prediction engine, checked under PredSpec *)

Predicted == predCall.op = "predictPlantHealth"
PredReturned == Predicted /\ predCall.result.kind = "returned"
Analyzed == acCall.op = "analyzeAcousticPattern"

\* C6: every result predictPlantHealth returns has predictedHealth within
\* [0, 100], whatever the inputs and the path.
C6_PredictedHealthInRange ==
    PredReturned => /\ 0 <= predCall.result.predictedHealth
                    /\ predCall.result.predictedHealth <= 10000

\* C6 witness: a call with temperature 1000 whose fallback prediction was
\* below zero has returned.
C6_Witness ==
    /\ PredReturned
    /\ predCall.path = "fallback"
    /\ predCall.input.temperature = 10000
    /\ predCall.raw < 0

\* C7 (as claimed): neither predictPlantHealth nor analyzeAcousticPattern
\* ever raises; every call returns a result.
C7_NeverRaises ==
    /\ Predicted => predCall.result.kind = "returned"
    /\ Analyzed => acCall.result.kind = "returned"

\* The inputs of C8: no model path, temperature 23, humidity 60, score in [0, 100].
IdealFallback ==
    /\ PredReturned
    /\ predCall.path = "fallback"
    /\ predCall.input.temperature = 230
    /\ predCall.input.humidity = 600
    /\ 0 <= predCall.input.healthScore /\ predCall.input.healthScore <= 10000

\* C8 (as claimed): with no model, predictPlantHealth(score, 23, 60) returns
\* predictedHealth = score, and the trend is stable when score is 100.
C8_IdealReturnsScore ==
    IdealFallback =>
        /\ predCall.result.predictedHealth = predCall.input.healthScore
        /\ predCall.input.healthScore = 10000 => predCall.result.trend = "stable"

\* C8 (amended): with no model, predictPlantHealth(score, 23, 60) returns
\* round(score / 2 + 50), which is score only for score = 100, and the
\* trend is stable when score is 100.
C8_IdealReturnsHalfwayToFull ==
    IdealFallback =>
        /\ predCall.result.predictedHealth
             = 100 * Round(predCall.input.healthScore + 10000, 200)
        /\ (predCall.result.predictedHealth = predCall.input.healthScore)
             <=> (predCall.input.healthScore = 10000)
        /\ predCall.input.healthScore = 10000 => predCall.result.trend = "stable"

\* C8 witness: the call predictPlantHealth(50, 23, 60) returned 75 with no model.
C8_Witness ==
    /\ IdealFallback
    /\ predCall.input.healthScore = 5000
    /\ predCall.result.predictedHealth = 7500

\* C9: on every path the trend follows the deadband on the prediction the
\* path produced: stable from current - 5 to current + 5, both included,
\* improving only above current + 5, declining only below current - 5.
C9_TrendDeadband ==
    PredReturned =>
        LET predicted == predCall.raw
            current   == predCall.input.healthScore
            trend     == predCall.result.trend
        IN  /\ trend \in {"improving", "stable", "declining"}
            /\ (trend = "improving") <=> (predicted > current + 500)
            /\ (trend = "declining") <=> (predicted < current - 500)
            /\ (current - 500 <= predicted /\ predicted <= current + 500) => trend = "stable"

\* C9 witness: the model predicted current + 5 exactly and the trend is stable.
C9_Witness ==
    /\ PredReturned
    /\ predCall.path = "model"
    /\ predCall.raw = predCall.input.healthScore + 500
    /\ predCall.result.trend = "stable"

\* C10 (as claimed): the trend of a result agrees with its returned
\* (clamped) predictedHealth: improving exactly when predictedHealth >
\* current + 5, declining exactly when predictedHealth < current - 5.
C10_TrendOfReturnedValue ==
    PredReturned =>
        LET returned == predCall.result.predictedHealth
            current  == predCall.input.healthScore
            trend    == predCall.result.trend
        IN  /\ (trend = "improving") <=> (returned > current + 500)
            /\ (trend = "declining") <=> (returned < current - 500)

\* The call is one where a loaded health model was reached and the
\* inference raised (tensor2d, predict, dataSync or dispose threw).
InferenceRaised == PredReturned /\ predCall.path = "modelFailed"

\* C11 (as claimed): when the health model is loaded and the inference
\* raises, predictPlantHealth returns what it returns for the same input
\* with no model loaded: the fallback's predictedHealth, confidence 0.65
\* and trend.
C11_FailedInferenceIsFallback ==
    InferenceRaised =>
        predCall.result = PredictPlantHealth(predCall.input, "null", tf, NoInference).result

\* C12 (as claimed): when an exception is raised inside a path of
\* predictPlantHealth, the call returns predictedHealth = healthScore,
\* confidence 0.5 and trend stable.
C12_ExceptionReturnsCurrentScore ==
    InferenceRaised =>
        predCall.result = Returned(predCall.input.healthScore, 50, "stable")

\* The feature argument is missing (null, undefined) or an empty array.
EmptyFeatures ==
    \/ acCall.audioFeatures.kind = "missing"
    \/ acCall.audioFeatures.kind = "array" /\ acCall.audioFeatures.values = << >>

\* C14: analyzeAcousticPattern with an empty or missing feature vector
\* returns exactly {stressLevel 0.5, healthy, confidence 0.5}, whatever the
\* plant health score and whether or not an acoustic model is loaded, and
\* without reaching the model or the fallback computation.
C14_EmptyFeaturesNeutral ==
    (Analyzed /\ EmptyFeatures) =>
        /\ acCall.path = "empty"
        /\ acCall.result = AcousticReturned(500, "healthy", 50)

\* C14 witness: a call with an empty array and health score 150 has
\* returned while an acoustic model was loaded.
C14_Witness ==
    /\ Analyzed
    /\ acCall.audioFeatures = Features("array", << >>)
    /\ acCall.plantHealthScore = 15000
    /\ acousticModel = "loaded" /\ tf
    /\ acCall.result.kind = "returned"

\* The call went past the short-circuit and returned from lines 218-222.
Classified == Analyzed /\ acCall.path \in {"model", "modelFailed", "fallback"}

\* C15: for a non-empty feature vector, on the model path and on the
\* fallback path, the classification is high_stress exactly when the
\* computed stress level is above 0.7, moderate_stress exactly when it is
\* above 0.4 and at most 0.7, healthy exactly when it is at most 0.4.
C15_ClassificationThresholds ==
    Classified =>
        LET stress7 == acCall.raw
            class   == acCall.result.classification
        IN  /\ (class = "high_stress") <=> (stress7 > 7000000)
            /\ (class = "moderate_stress") <=> (4000000 < stress7 /\ stress7 <= 7000000)
            /\ (class = "healthy") <=> (stress7 <= 4000000)

\* C15 witness: the model computed a stress level of exactly 0.7 and the
\* call returned moderate_stress.
C15_Witness ==
    /\ Classified
    /\ acCall.path = "model"
    /\ acCall.raw = 7000000
    /\ acCall.result.classification = "moderate_stress"

\* C16 (as claimed): every error raised during analyzeAcousticPattern, an
\* inference error with a loaded acoustic model included, yields exactly
\* {stressLevel 0.5, healthy, confidence 0.5}.
C16_AnyErrorNeutral ==
    (Analyzed /\ acCall.path \in {"error", "modelFailed"}) =>
        acCall.result = NeutralResult

\* C17 (as claimed): every result of analyzeAcousticPattern has stressLevel
\* in [0, 1] and confidence in [0, 1].
C17_AcousticResultInUnitRange ==
    (Analyzed /\ acCall.result.kind = "returned") =>
        /\ 0 <= acCall.result.stressLevel /\ acCall.result.stressLevel <= 1000
        /\ 0 <= acCall.result.confidence /\ acCall.result.confidence <= 100

-----------------------------------------------------------------------------
(* Properties of the health scorer, checked under ScoreSpec *)

Scored == scoreCall.op = "calculateHealthScore"

\* C13: calculateHealthScore returns an integer in [10, 100] for every
\* reading, readings far outside the simulator's hard ranges included.
C13_ScoreInRange ==
    Scored => scoreCall.score \in 10..100

\* C13 witness: a reading far outside the hard ranges, whose rounded mean
\* fit is below 10, was scored 10.
C13_Witness ==
    /\ Scored
    /\ scoreCall.reading.temperature = 5000
    /\ scoreCall.rounded < 10
    /\ scoreCall.score = 10

-----------------------------------------------------------------------------
(* Properties of the ingestion endpoint, checked under ApiSpec *)

\* The last n elements of a sequence, in their order.
LastN(seq, n) == SubSeq(seq, Len(seq) - n + 1, Len(seq))

\* The latest request was a POST whose body parsed.
Posted == response.method = "POST" /\ ~response.request.body.malformed

\* One of the three required fields is missing from the body.
MissingField(body) ==
    \/ body.plantId.kind = "undefined"
    \/ body.temperature.kind = "undefined"
    \/ body.humidity.kind = "undefined"

\* C18 (as claimed): POST returns 400 exactly when plantId, temperature or
\* humidity is missing from the body; for every integer plantId and
\* numeric temperature and humidity it returns 201 with success true and
\* the reading is appended to that plant's stored readings.
C18_RejectsExactlyMissing ==
    Posted =>
        LET body == response.request.body
            readings == ReadingsOf(sensorReadings, body.plantId.n)
        IN  /\ (response.status = 400) <=> MissingField(body)
            /\ ~MissingField(body) =>
                 /\ response.status = 201 /\ response.success
                 /\ response.reading.plantId = body.plantId.n
                 /\ response.reading.temperature = body.temperature.n
                 /\ response.reading.humidity = body.humidity.n
                 /\ readings # << >>
                 /\ readings[Len(readings)] = response.reading

IsNatural(text) == text # << >> /\ \A i \in 1..Len(text) : IsDigit(text[i])

\* C20 (as claimed): GET with plantId p and limit n, n any non-negative
\* integer, returns the most recent min(n, stored count) readings of plant
\* p, oldest first, and readingCount is the number of readings returned.
C20_ReturnsMostRecent ==
    (/\ response.method = "GET"
     /\ response.request.plantId.present /\ IsNatural(response.request.plantId.text)
     /\ response.request.limit.present /\ IsNatural(response.request.limit.text)) =>
        LET p == ParseInt(response.request.plantId.text).n
            n == ParseInt(response.request.limit.text).n
            stored == ReadingsOf(sensorReadings, p)
        IN  /\ response.status = 200
            /\ response.readings = LastN(stored, Min(n, Len(stored)))
            /\ response.readingCount = Len(response.readings)

-----------------------------------------------------------------------------
(* The dry run, checked under DrySpec *)

\* The run is over: the state was read when the plant had last been
\* watered 48 hours before, and 100 generateSensorReading calls followed.
DryRunDone ==
    /\ snapshot.defined
    /\ snapshot.at - snapshot.lastWatered = 48
    /\ nAdvance = 100
    /\ lastCall.op = "generateSensorReading"

\* C21: for a plant initialised with baseline 22, last watered 48 hours
\* ago and never watered, after 100 generateSensorReading calls the soil
\* moisture is strictly below the initial one (and not below the floor of
\* 10) and the stress level is above the initial one.
C21_DryRunDriesAndStresses ==
    DryRunDone =>
        /\ plantStates[1].soilMoisture < snapshot.soilMoisture
        /\ plantStates[1].soilMoisture >= MS * 10
        /\ plantStates[1].stressLevel > snapshot.stressLevel

\* C21 witness: a run whose every step drew the largest rise of moisture,
\* from the wettest and most stressed start, is over, the soil at the floor.
C21_Witness ==
    /\ DryRunDone
    /\ snapshot.soilMoisture = MS * 60 + 450
    /\ snapshot.stressLevel = 7 * 2700
    /\ plantStates[1].soilMoisture = MS * 10
    /\ plantStates[1].temperature > TS * 22

-----------------------------------------------------------------------------
(* Lifetime of a plant's state, checked under SimSpec *)

\* C22 (as claimed): a plant's state is seeded on the first reference to
\* its id and never again: an explicit initializeSensorState of an id that
\* has a state leaves that state as the earlier calls made it.
C22_NeverReseeded ==
    [][\A id \in DOMAIN plantStates :
          (lastCall'.op = "initializeSensorState" /\ lastCall'.plantId = id)
              => plantStates'[id] = plantStates[id]]_vars

\* The step is one generateSensorReading call of a plant that had a state.
SingleAdvance(id) ==
    /\ id \in DOMAIN plantStates
    /\ nAdvance' = nAdvance + 1
    /\ lastCall'.op = "generateSensorReading" /\ lastCall'.plantId = id

\* C24: the state stored by generateSensorReading holds the unrounded
\* values of the step, computed from the stored values of the state before
\* (not from a rounded reading), and the reading returned is the rounding
\* of what was stored.
C24_RoundingDoesNotFeedBack ==
    [][\A id \in PlantIds :
          SingleAdvance(id) =>
              \E d \in AdvanceDraws :
                 LET old == plantStates[id]
                     new == plantStates'[id]
                     walked == Max(MS * 10, Min(MS * 100, old.soilMoisture + 15 * (d[3] - 4)))
                 IN  /\ new.temperature
                          = Max(TS * 15, Min(TS * 35, old.temperature + d[1] - 4))
                     /\ new.humidity
                          = Max(HS * 20, Min(HS * 95, old.humidity + d[2] - 4))
                     /\ new.soilMoisture
                          = Max(MS * 10, walked - (now - old.lastWatered) * 6)
                     /\ new.lightIntensity
                          = Max(0, Min(LS * 1000, old.lightIntensity + 25 * (d[4] - 4)))
                     /\ lastReading'.temperature = Round(new.temperature * 10, TS)
                     /\ lastReading'.humidity = Round(new.humidity * 10, HS)
                     /\ lastReading'.soilMoisture = Round(new.soilMoisture * 10, MS)
                     /\ lastReading'.lightIntensity = Round(new.lightIntensity, LS)]_vars

\* C24 witness: a second generateSensorReading call has returned, and the
\* temperature and light it stored are not the rounded ones it returned.
C24_Witness ==
    /\ AfterAdvance /\ lastCall.had
    /\ nAdvance >= 2
    /\ Target.temperature * 10 # lastReading.temperature * TS
    /\ Target.lightIntensity # lastReading.lightIntensity * LS

-----------------------------------------------------------------------------
(* Several plants, checked under FleetSpec *)

\* The plants named by the call that the step makes.
Touched == {lastCall'.ids[i] : i \in DOMAIN lastCall'.ids}

\* The entries of the plants outside S, and which of them exist, are as
\* they were before the step.
OthersUnchanged(S) ==
    /\ DOMAIN plantStates' \ S = DOMAIN plantStates \ S
    /\ \A other \in DOMAIN plantStates \ S : plantStates'[other] = plantStates[other]

\* C27: generateSensorReading(id) and waterPlant(id) change only the entry
\* of id, and getAllPlantReadings(ids) only the entries of ids, each of them
\* by one step of its own state: the entry of every other plant and the set
\* of the other plants that have a state stay as they were.
C27_ScopedPerPlant ==
    [][/\ lastCall'.op \in {"generateSensorReading", "waterPlant", "getAllPlantReadings"}
           => OthersUnchanged(Touched)
       /\ (lastCall'.op = "getAllPlantReadings" /\ nAdvance' = nAdvance + Len(lastCall'.ids))
           => \A id \in Touched :
                 \E d \in FleetDraws, di \in FleetInitDraws :
                    plantStates'[id]
                       = StepState(IF Has(id) THEN plantStates[id]
                                   ELSE SeedState(id, 22, di, now), d, now)]_vars

\* C27 witness: getAllPlantReadings has advanced plants 1 and 2 in one call
\* while plant 3 had a state, after an earlier call for plant 2 alone.
C27_Witness ==
    /\ lastCall.op = "getAllPlantReadings" /\ lastCall.ids = <<1, 2>>
    /\ DOMAIN plantStates = {1, 2, 3}
    /\ plantStates[1] # plantStates[2]

\* C28: waterPlant of a plant that has no state changes nothing in the map,
\* and the first generateSensorReading of a plant that has no state starts
\* from a state seeded at that call, whose lastWatered is the seed's draw
\* back from the time of the call.
C28_WaterUnknownIsNoOp ==
    [][\A id \in FleetIds :
          /\ (lastCall'.op = "waterPlant" /\ lastCall'.plantId = id /\ ~Has(id))
                => plantStates' = plantStates
          /\ (lastCall'.op = "generateSensorReading" /\ lastCall'.plantId = id /\ ~Has(id))
                => \E d \in FleetDraws, di \in FleetInitDraws :
                      /\ plantStates'[id] = StepState(SeedState(id, 22, di, now), d, now)
                      /\ plantStates'[id].lastWatered = now - di[5] * 3]_vars

\* C28 witness: a plant was watered while it had no state and another plant
\* had one, and its first generateSensorReading came afterwards: its
\* lastWatered lies before the start of the run.
C28_Witness ==
    /\ AfterAdvance /\ ~lastCall.had
    /\ lastCall.plantId = 1
    /\ lastCall.again
    /\ 2 \in DOMAIN plantStates
    /\ plantStates[1].lastWatered < 0

-----------------------------------------------------------------------------
(* Lifetime of the model handles, checked under PredSpec *)

\* C23: an inference runs on the handle its variable holds at the call,
\* and that handle is never a disposed one: disposeModels leaves no
\* disposed handle in a variable.  predictPlantHealth and
\* analyzeAcousticPattern are synchronous (predict and dataSync, lines
\* 121-122 and 186-187), so each inference is one step and no disposeModels
\* runs inside it.
C23_NoInferenceOnDisposed ==
    /\ healthModel # "disposed"
    /\ acousticModel # "disposed"
    /\ predCall.path \in {"model", "modelFailed"} => predCall.model = "loaded"
    /\ acCall.path \in {"model", "modelFailed"} => acCall.model = "loaded"

\* C23 witness: after a disposeModels, the acoustic model was loaded again
\* and an inference ran on it.
C23_Witness ==
    /\ disposal.called
    /\ acCall.path = "model"
    /\ acCall.model = "loaded"

\* C29 (as claimed): an initializeModels call that was in flight when
\* disposeModels ran installs no model afterwards: while such a call is in
\* flight, no step puts a model into a variable.
C29_StaleInitInstallsNothing ==
    [][disposal.during =>
          /\ healthModel' \in {healthModel, "null"}
          /\ acousticModel' \in {acousticModel, "null"}]_vars

-----------------------------------------------------------------------------
(* The fits of calculateHealthScore, checked under ScoreSpec *)

\* The reading lies within the simulator's hard ranges: temperature
\* [15, 35], humidity [20, 95], soil moisture [10, 100], light [0, 1000].
InHardRanges(reading) ==
    /\ reading.temperature \in 150..350
    /\ reading.humidity \in 200..950
    /\ reading.soilMoisture \in 100..1000
    /\ reading.lightIntensity \in 0..1000

\* C25 (as claimed): for a reading within the hard ranges each of the four
\* fits lies in [0, 1].
C25_FitsInUnitInterval ==
    (Scored /\ InHardRanges(scoreCall.reading)) =>
        /\ TempFit(scoreCall.reading) \in 0..1500
        /\ HumidityFit(scoreCall.reading) \in 0..1500
        /\ MoistureFit(scoreCall.reading) \in 0..1500
        /\ LightFit(scoreCall.reading) \in 0..1500

-----------------------------------------------------------------------------
(* Confidence of the acoustic fallback, checked under PredSpec *)

\* The latest call was an analyzeAcousticPattern that took the fallback path
\* and computed a stress level in [0, 1].
FallbackInUnit ==
    /\ acCall.op = "analyzeAcousticPattern" /\ acCall.path = "fallback"
    /\ acCall.raw \in 0..10000000

\* What the fallback path returns as confidence (1/100) for a stress level.
ConfidenceReturned(stress7) == Round(FallbackConfidence(stress7), 1000000)

\* The fallback calls that computed a stress level in [0, 1] at least as
\* far from 0.5 as stress7 is.
FartherFallbacks(stress7) ==
    {out \in {AnalyzeAcousticPattern(in[1], in[2], "null", FALSE, NoInference) :
                  in \in AnalyzeInputs} :
        /\ out.path = "fallback"
        /\ out.raw \in 0..10000000
        /\ Abs(out.raw - 5000000) >= Abs(stress7 - 5000000)}

\* C26 (as claimed): on the fallback path the confidence returned for a
\* stress level of 0 or 1 is at least the confidence returned for 0.5.
C26_MostCertainAtExtremes ==
    (FallbackInUnit /\ acCall.raw \in {0, 10000000}) =>
        acCall.result.confidence >= ConfidenceReturned(5000000)

\* C26 (amended): on the fallback path, for stress levels in [0, 1], the
\* confidence returned lies between 0.7 and 0.8, is 0.7 at a stress level
\* of 0 or 1, is never above the confidence returned for 0.5, and does not
\* increase as the stress level moves away from 0.5.
C26_MostCertainAtHalf ==
    FallbackInUnit =>
        /\ acCall.result.confidence \in 70..80
        /\ acCall.raw \in {0, 10000000} => acCall.result.confidence = 70
        /\ acCall.result.confidence <= ConfidenceReturned(5000000)
        /\ \A out \in FartherFallbacks(acCall.raw) :
              out.result.confidence <= acCall.result.confidence

\* C26 witness: a fallback call computed a stress level of 0 and returned
\* confidence 0.7, below the 0.8 of a stress level of 0.5.
C26_Witness ==
    /\ FallbackInUnit
    /\ acCall.raw = 0
    /\ acCall.result.confidence = 70
    /\ ConfidenceReturned(5000000) = 80

-----------------------------------------------------------------------------
(* Classification against the returned stress level, checked under PredSpec *)

\* The fixed thresholds applied to a returned stressLevel (1/1000).
ReturnedClass(level) ==
    IF level > 700 THEN "high_stress"
    ELSE IF level > 400 THEN "moderate_stress"
    ELSE "healthy"

\* C30 (as claimed): in every result analyzeAcousticPattern returns, on
\* every path, the classification is the one the thresholds 0.7 and 0.4
\* give for the returned stressLevel.
C30_ClassificationMatchesReturned ==
    (Analyzed /\ acCall.result.kind = "returned") =>
        acCall.result.classification = ReturnedClass(acCall.result.stressLevel)

\* C30 (amended): on the model, failed-inference and fallback paths the
\* classification is the one the thresholds give for the stress level
\* before rounding, so it differs from the one for the returned stressLevel
\* only when that is exactly 0.4 or 0.7 and the unrounded level lies above
\* it; the empty-input short-circuit and the error path return stressLevel
\* 0.5 classified healthy.
C30_ClassificationByPath ==
    (Analyzed /\ acCall.result.kind = "returned") =>
        LET level == acCall.result.stressLevel
            class == acCall.result.classification
        IN  /\ acCall.path \in {"empty", "error"} => (level = 500 /\ class = "healthy")
            /\ Classified =>
                  /\ class = ReturnedClass(IF acCall.raw > 10000 * level
                                           THEN level + 1 ELSE level)
                  /\ class # ReturnedClass(level) =>
                        (level \in {400, 700} /\ acCall.raw > 10000 * level)

\* C30 witness: the fallback path computed a stress level of 0.7002993 and
\* returned stressLevel 0.7 classified high_stress.
C30_Witness ==
    /\ Classified
    /\ acCall.path = "fallback"
    /\ acCall.raw = 7002993
    /\ acCall.result.stressLevel = 700
    /\ acCall.result.classification = "high_stress"

====
